---- MODULE Spec2Model ----
(***************************************************************************)
(* Model of src/rust/src/main.rs: an interactive banking session over an   *)
(* in-memory account registry and an exchange-rate table.                  *)
(*                                                                         *)
(* Lines typed by the operator are strings.  An f64 is encoded as an       *)
(* integer: a finite value n as n itself, and +inf, -inf and NaN as three  *)
(* integers far outside the finite values a bounded session can produce.   *)
(***************************************************************************)
EXTENDS Integers, Sequences, FiniteSets, TLC

\* ---------------------------------------------------------------- bounds
MaxTxns == 3
MaxAccounts == 2
InterestMaxBalance == 400

\* ------------------------------------------------------------- constants
CURRENCY_CNT == 6
CURRENCIES_CODES == <<"PHP", "USD", "JPY", "GBP", "EUR", "CNY">>
TRANSACTION_TITLES == <<"Register Account Name", "Deposit Amount",
                        "Withdraw Amount", "Currency Exchange",
                        "Record Exchange Rates", "Show Interest Amount">>

\* ------------------------------------------------------------------- f64
PosInf == 1000000000
NegInf == -PosInf
NaN == PosInf + 1

is_nan(a) == a = NaN
is_infinite(a) == a = PosInf \/ a = NegInf

fneg(a) == IF is_nan(a) THEN NaN ELSE -a

fadd(a, b) ==
    IF is_nan(a) \/ is_nan(b) THEN NaN
    ELSE IF is_infinite(a) THEN (IF b = -a THEN NaN ELSE a)
    ELSE IF is_infinite(b) THEN b
    ELSE a + b

fsub(a, b) == fadd(a, fneg(b))

fmul(a, b) ==
    IF is_nan(a) \/ is_nan(b) THEN NaN
    ELSE IF is_infinite(a) \/ is_infinite(b)
         THEN (IF a = 0 \/ b = 0 THEN NaN
               ELSE IF (a > 0) = (b > 0) THEN PosInf ELSE NegInf)
    ELSE a * b

\* a < b on f64: false whenever an operand is NaN
flt(a, b) == ~is_nan(a) /\ ~is_nan(b) /\ a < b

\* --------------------------------------------------------- line handling
\* str::trim on the lines the operator can type
trim(s) == CASE s = " " -> ""
             [] s = " a" -> "a"
             [] OTHER -> s

\* str::to_uppercase on the lines the operator can type
to_uppercase(s) == CASE s = "php" -> "PHP"
                     [] s = "usd" -> "USD"
                     [] s = "xxx" -> "XXX"
                     [] s = "y" -> "Y"
                     [] s = "n" -> "N"
                     [] s = "maybe" -> "MAYBE"
                     [] OTHER -> s

\* prompt(): the line read from stdin, trimmed
prompt(line) == trim(line)

Numerals == <<"0", "1", "2", "3", "4", "5", "6", "7", "8", "9">>
NegNumerals == <<"-1", "-2", "-3">>

Ok(v) == [ok |-> TRUE, v |-> v]
Err == [ok |-> FALSE, v |-> 0]

\* str::parse::<usize>()
parse_usize(s) ==
    IF \E i \in 1..Len(Numerals) : Numerals[i] = s
    THEN Ok((CHOOSE i \in 1..Len(Numerals) : Numerals[i] = s) - 1)
    ELSE Err

\* str::parse::<u32>()
parse_u32(s) == parse_usize(s)

\* str::parse::<f64>()
parse_f64(s) ==
    IF \E i \in 1..Len(Numerals) : Numerals[i] = s
    THEN Ok((CHOOSE i \in 1..Len(Numerals) : Numerals[i] = s) - 1)
    ELSE IF \E i \in 1..Len(NegNumerals) : NegNumerals[i] = s
    THEN Ok(-(CHOOSE i \in 1..Len(NegNumerals) : NegNumerals[i] = s))
    ELSE IF s = "NaN" THEN Ok(NaN)
    ELSE IF s = "inf" THEN Ok(PosInf)
    ELSE IF s = "-inf" THEN Ok(NegInf)
    ELSE Err

\* ------------------------------------------------- what the operator types
NameLines == {"a", "b", " a", " "}
CurrencyLines == {"PHP", "USD", "JPY", "GBP", "EUR", "CNY", "usd", "XXX"}
AmountLines == {"-1", "0", "1", "2", "NaN", "inf", "abc"}
SourceAmountLines == {"-1", "2", "inf", "abc"}
MenuLines == {"0", "1", "2", "3", "4", "5", "6", "7", "abc"}
CurrencyIdLines == {"0", "1", "2", "3", "4", "5", "6", "7", "abc"}
RateIdLines == {"0", "1", "2", "3", "4", "5", "6", "abc"}
RateLines == {"-1", "0", "1", "2", "abc"}
DayLines == {"0", "1", "2", "3", "-1"}
YesNoLines == {"Y", "N", "y", "n", "maybe"}

\* ---------------------------------------------------------------- state
\* main: Vec<Account>, in insertion order
VARIABLE accounts
\* main: HashMap<&str, f64>, a function on its keys
VARIABLE exchange_rates
\* where main's loop stands
VARIABLE pc
\* main: the transaction picked at the menu
VARIABLE chosen_idx
\* the lines read from stdin by the last step, in order
VARIABLE lines
\* the last message the last step printed
VARIABLE out
\* number of menu selections made so far
VARIABLE txn_cnt

vars == <<accounts, exchange_rates, pc, chosen_idx, lines, out, txn_cnt>>

\* ------------------------------------------------------------- messages
Silent == [msg |-> "", val |-> 0, rows |-> <<>>]
Say(m) == [msg |-> m, val |-> 0, rows |-> <<>>]
SayVal(m, v) == [msg |-> m, val |-> v, rows |-> <<>>]

\* -------------------------------------------------------------- Account
Account_new(name) == [name |-> name, balance |-> 0, currency |-> "PHP"]

\* #[derive(PartialEq)] on Account: every field is compared, and the f64
\* field with f64's ==, which is false on NaN
Account_eq(a, b) ==
    /\ a.name = b.name
    /\ ~is_nan(a.balance) /\ ~is_nan(b.balance) /\ a.balance = b.balance
    /\ a.currency = b.currency

\* Vec::contains
contains(accs, account) == \E i \in 1..Len(accs) : Account_eq(accs[i], account)

\* an insert that rebuilds the table from the one entry it is given
insert_fresh(rates, key, value) == [k \in {key} |-> value]

\* HashMap::insert
insert(rates, key, value) ==
    [k \in (DOMAIN rates) \cup {key} |-> IF k = key THEN value ELSE rates[k]]

\* CURRENCIES_CODES.iter().any(|c| *c == currency)
is_currency_code(currency) ==
    \E i \in 1..CURRENCY_CNT : CURRENCIES_CODES[i] = currency

\* convert_currency looking the pivot up in the table like any other code
convert_currency_lookup(amount, src, dest, rates) ==
    LET rate_of(c) == IF c \in DOMAIN rates THEN rates[c] ELSE 1
    IN  fmul(fmul(amount, rate_of(src)), rate_of(dest))

convert_currency(amount, src, dest, rates) ==
    LET src_php_amount == IF src = "PHP" THEN amount ELSE fmul(amount, rates[src])
    IN  IF dest = "PHP" THEN src_php_amount ELSE fmul(src_php_amount, rates[dest])

\* deposit_balance adding the amount as typed, in whatever currency
deposit_balance_unconverted(account, rates, currency_line, amount_line) ==
    LET currency == to_uppercase(prompt(currency_line))
        parsed == parse_f64(prompt(amount_line))
        balance == fadd(account.balance, parsed.v)
    IN  IF ~is_currency_code(currency)
        THEN [account |-> account, lines |-> <<currency_line>>,
              out |-> Say("No currency with this code exists!")]
        ELSE IF parsed.ok
        THEN [account |-> [account EXCEPT !.balance = balance],
              lines |-> <<currency_line, amount_line>>,
              out |-> SayVal("Updated Balance", balance)]
        ELSE [account |-> account, lines |-> <<currency_line, amount_line>>,
              out |-> Say("Deposit amount must be a floating point number!")]

\* deposit_balance: the account afterwards, the lines read, the last message
deposit_balance(account, rates, currency_line, amount_line) ==
    LET currency == to_uppercase(prompt(currency_line))
        parsed == parse_f64(prompt(amount_line))
        delta == IF currency = "PHP" THEN parsed.v
                 ELSE convert_currency(parsed.v, currency, "PHP", rates)
        balance == fadd(account.balance, delta)
    IN  IF ~is_currency_code(currency)
        THEN [account |-> account, lines |-> <<currency_line>>,
              out |-> Say("No currency with this code exists!")]
        ELSE IF parsed.ok
        THEN [account |-> [account EXCEPT !.balance = balance],
              lines |-> <<currency_line, amount_line>>,
              out |-> SayVal("Updated Balance", balance)]
        ELSE [account |-> account, lines |-> <<currency_line, amount_line>>,
              out |-> Say("Deposit amount must be a floating point number!")]

\* withdraw_balance subtracting before it checks the result
withdraw_balance_eager(account, rates, currency_line, amount_line) ==
    LET currency == to_uppercase(prompt(currency_line))
        parsed == parse_f64(prompt(amount_line))
        amount == IF currency = "PHP" THEN parsed.v
                  ELSE convert_currency(parsed.v, currency, "PHP", rates)
        updated == [account EXCEPT !.balance = fsub(account.balance, amount)]
    IN  IF ~is_currency_code(currency)
        THEN [account |-> account, lines |-> <<currency_line>>,
              out |-> Say("No currency with this code exists!")]
        ELSE IF parsed.ok
        THEN IF flt(updated.balance, 0)
             THEN [account |-> updated, lines |-> <<currency_line, amount_line>>,
                   out |-> Say("Withdraw amount must be less than the current balance!")]
             ELSE [account |-> updated,
                   lines |-> <<currency_line, amount_line>>,
                   out |-> SayVal("Updated Balance", updated.balance)]
        ELSE [account |-> account, lines |-> <<currency_line, amount_line>>,
              out |-> Say("Withdraw amount must be a floating point number!")]

\* withdraw_balance: the account afterwards, the lines read, the last message
withdraw_balance(account, rates, currency_line, amount_line) ==
    LET currency == to_uppercase(prompt(currency_line))
        parsed == parse_f64(prompt(amount_line))
        amount == IF currency = "PHP" THEN parsed.v
                  ELSE convert_currency(parsed.v, currency, "PHP", rates)
    IN  IF ~is_currency_code(currency)
        THEN [account |-> account, lines |-> <<currency_line>>,
              out |-> Say("No currency with this code exists!")]
        ELSE IF parsed.ok
        THEN IF flt(fsub(account.balance, amount), 0)
             THEN [account |-> account, lines |-> <<currency_line, amount_line>>,
                   out |-> Say("Withdraw amount must be less than the current balance!")]
             ELSE [account |-> [account EXCEPT !.balance = fsub(account.balance, amount)],
                   lines |-> <<currency_line, amount_line>>,
                   out |-> SayVal("Updated Balance", fsub(account.balance, amount))]
        ELSE [account |-> account, lines |-> <<currency_line, amount_line>>,
              out |-> Say("Withdraw amount must be a floating point number!")]

\* usize::MAX, the value `0 - 1` wraps to when overflow checks are off; it
\* stands here as the largest integer the checker represents
usize_MAX == 2147483647

\* `idx - 1` on usize: a build with overflow checks panics on 0 - 1, a build
\* without them wraps
sub_one(idx, overflow_checks) ==
    IF idx = 0
    THEN (IF overflow_checks THEN [panic |-> TRUE, v |-> 0]
          ELSE [panic |-> FALSE, v |-> usize_MAX])
    ELSE [panic |-> FALSE, v |-> idx - 1]

Panic == Say("attempt to subtract with overflow")

\* exchange_currencies: the lines read, the last message, whether it panicked
exchange_currencies(rates, src_line, amount_line, exchange_line, overflow_checks) ==
    LET src_parsed == parse_usize(prompt(src_line))
        src_idx == sub_one(src_parsed.v, overflow_checks)
        src_amount == parse_f64(prompt(amount_line))
        exchange_parsed == parse_usize(prompt(exchange_line))
        exchange_idx == sub_one(exchange_parsed.v, overflow_checks)
        l1 == <<src_line>>
        l2 == <<src_line, amount_line>>
        l3 == <<src_line, amount_line, exchange_line>>
        Ret(l, o) == [lines |-> l, out |-> o, panicked |-> FALSE]
    IN  IF ~src_parsed.ok
        THEN Ret(l1, Say("ID must be a positive whole number (integer)!"))
        ELSE IF src_idx.panic
        THEN [lines |-> l1, out |-> Panic, panicked |-> TRUE]
        ELSE IF src_idx.v >= CURRENCY_CNT
        THEN Ret(l1, Say("No currency with this ID exists!"))
        ELSE IF ~src_amount.ok
        THEN Ret(l2, Say("Amount must be a floating point number!"))
        ELSE IF ~exchange_parsed.ok
        THEN Ret(l3, Say("ID must be a positive whole number (integer)!"))
        ELSE IF exchange_idx.panic
        THEN [lines |-> l3, out |-> Panic, panicked |-> TRUE]
        ELSE IF exchange_idx.v >= CURRENCY_CNT
        THEN Ret(l3, Say("No currency with this ID exists!"))
        ELSE Ret(l3, SayVal("Exchange Amount",
                            convert_currency(src_amount.v,
                                             CURRENCIES_CODES[src_idx.v + 1],
                                             CURRENCIES_CODES[exchange_idx.v + 1],
                                             rates)))

\* set_exchange_rate taking the number as a 1-based index into the full list
set_exchange_rate_full_list(rates, id_line, rate_line) ==
    LET idx == parse_usize(prompt(id_line))
        rate == parse_f64(prompt(rate_line))
    IN  IF ~idx.ok
        THEN [rates |-> rates, lines |-> <<id_line>>,
              out |-> Say("ID must be a positive whole number (integer)!")]
        ELSE IF idx.v = 0 \/ idx.v > CURRENCY_CNT
        THEN [rates |-> rates, lines |-> <<id_line>>,
              out |-> Say("No currency with this ID exists!")]
        ELSE IF ~rate.ok
        THEN [rates |-> rates, lines |-> <<id_line, rate_line>>,
              out |-> Say("Amount must be a floating point number!")]
        ELSE [rates |-> insert(rates, CURRENCIES_CODES[idx.v], rate.v),
              lines |-> <<id_line, rate_line>>, out |-> Silent]

\* set_exchange_rate: the table afterwards, the lines read, the last message
set_exchange_rate(rates, id_line, rate_line) ==
    LET idx == parse_usize(prompt(id_line))
        rate == parse_f64(prompt(rate_line))
    IN  IF ~idx.ok
        THEN [rates |-> rates, lines |-> <<id_line>>,
              out |-> Say("ID must be a positive whole number (integer)!")]
        ELSE IF idx.v >= CURRENCY_CNT
        THEN [rates |-> rates, lines |-> <<id_line>>,
              out |-> Say("No currency with this ID exists!")]
        ELSE IF ~rate.ok
        THEN [rates |-> rates, lines |-> <<id_line, rate_line>>,
              out |-> Say("Amount must be a floating point number!")]
        ELSE [rates |-> insert(rates, CURRENCIES_CODES[idx.v + 1], rate.v),
              lines |-> <<id_line, rate_line>>, out |-> Silent]

\* f64::round of the quotient n / d (d > 0): half away from zero
round_div(n, d) ==
    IF n >= 0 THEN (2 * n + d) \div (2 * d) ELSE -((2 * (-n) + d) \div (2 * d))

\* the daily interest cut down to whole cents instead of rounded
daily_interest_cents_floor(balance) ==
    IF is_nan(balance) \/ is_infinite(balance) THEN balance
    ELSE (balance * 5) \div 365

\* (balance * (ANNUAL_INTEREST_RATE / 365.0) * 100.0).round(), in cents:
\* balance * 0.05 / 365 * 100 = balance * 5 / 365
daily_interest_cents(balance) ==
    IF is_nan(balance) \/ is_infinite(balance) THEN balance
    ELSE round_div(balance * 5, 365)

\* a finite f64 amount in cents; the special values stay themselves
cents(a) == IF is_nan(a) \/ is_infinite(a) THEN a ELSE a * 100

\* the loop `for i in 1..=day_cnt { balance += daily_interest }` after i rounds
RECURSIVE balance_after(_, _, _)
balance_after(balance, daily_interest, i) ==
    IF i = 0 THEN balance
    ELSE fadd(balance_after(balance, daily_interest, i - 1), daily_interest)

\* calculate_interest: the lines read and the table printed, amounts in cents
calculate_interest(account, day_line) ==
    LET day_cnt == parse_u32(prompt(day_line))
        daily_interest == daily_interest_cents(account.balance)
        row(i) == [day |-> i, interest |-> daily_interest,
                   balance |-> balance_after(cents(account.balance), daily_interest, i)]
    IN  IF day_cnt.ok
        THEN [lines |-> <<day_line>>,
              out |-> [msg |-> "Day | Interest | Balance |", val |-> 0,
                       rows |-> [i \in 1..day_cnt.v |-> row(i)]]]
        ELSE [lines |-> <<day_line>>,
              out |-> Say("Number must be a positive whole number (integer)!")]

\* accounts.iter().find(|a| a.name == prompt("Account Name: ")): the closure
\* prompts once for every account it visits, so the i-th answer is compared
\* with the i-th account only; 0 when no account matches its own answer
find(accs, answers) ==
    IF \E i \in 1..Len(accs) : accs[i].name = prompt(answers[i])
    THEN CHOOSE i \in 1..Len(accs) :
            /\ accs[i].name = prompt(answers[i])
            /\ \A j \in 1..(i - 1) : accs[j].name # prompt(answers[j])
    ELSE 0

\* the answers find() has read: up to the match, or one per account
find_lines(accs, answers) ==
    IF find(accs, answers) = 0 THEN answers
    ELSE SubSeq(answers, 1, find(accs, answers))

\* ----------------------------------------------------------------- Init
\* main seeding the table from every code, the first included
Init_every_code ==
    /\ accounts = <<>>
    /\ exchange_rates = [c \in {CURRENCIES_CODES[i] : i \in 1..CURRENCY_CNT} |-> 1]
    /\ pc = "MainMenu"
    /\ chosen_idx = 0
    /\ lines = <<>>
    /\ out = Silent
    /\ txn_cnt = 0

\* main, lines 302-307: an empty registry and rate 1.0 for every code but the
\* first
Init ==
    /\ accounts = <<>>
    /\ exchange_rates = [c \in {CURRENCIES_CODES[i] : i \in 2..CURRENCY_CNT} |-> 1]
    /\ pc = "MainMenu"
    /\ chosen_idx = 0
    /\ lines = <<>>
    /\ out = Silent
    /\ txn_cnt = 0

\* the balances the interest projection is tried on
InterestBalances ==
    (-InterestMaxBalance..InterestMaxBalance) \cup {10000, PosInf, NaN}

\* a session that has one account, holding any of these balances, and has
\* just picked Show Interest Amount at the menu
InitInterest ==
    /\ \E b \in InterestBalances :
          accounts = <<[name |-> "a", balance |-> b, currency |-> "PHP"]>>
    /\ exchange_rates = [c \in {CURRENCIES_CODES[i] : i \in 2..CURRENCY_CNT} |-> 1]
    /\ pc = "InTransaction"
    /\ chosen_idx = 6
    /\ lines = <<"6">>
    /\ out = Say(TRANSACTION_TITLES[6])
    /\ txn_cnt = 1

\* -------------------------------------------------------------- actions
\* the menu prompt: parse::<usize>().unwrap_or_default(), then the title
SelectTransaction ==
    /\ pc = "MainMenu"
    /\ txn_cnt < MaxTxns
    /\ \E line \in MenuLines :
          LET parsed == parse_usize(prompt(line))
              idx == IF parsed.ok THEN parsed.v ELSE 0
          IN  /\ chosen_idx' = idx
              /\ lines' = <<line>>
              /\ out' = IF idx > 0 /\ idx <= Len(TRANSACTION_TITLES)
                        THEN Say(TRANSACTION_TITLES[idx]) ELSE Silent
    /\ pc' = "InTransaction"
    /\ txn_cnt' = txn_cnt + 1
    /\ UNCHANGED <<accounts, exchange_rates>>

\* match arm 1 putting the new account in front of the others
Register_front ==
    /\ pc = "InTransaction" /\ chosen_idx = 1
    /\ \E line \in NameLines :
          LET account == Account_new(prompt(line))
          IN  /\ lines' = <<line>>
              /\ IF ~contains(accounts, account)
                 THEN /\ Len(accounts) < MaxAccounts
                      /\ accounts' = <<account>> \o accounts
                      /\ out' = Silent
                 ELSE /\ accounts' = accounts
                      /\ out' = Say("An account with this name already exists!")
    /\ pc' = "PostTransactionPrompt"
    /\ UNCHANGED <<exchange_rates, chosen_idx, txn_cnt>>

\* match arm 1
Register ==
    /\ pc = "InTransaction" /\ chosen_idx = 1
    /\ \E line \in NameLines :
          LET account == Account_new(prompt(line))
          IN  /\ lines' = <<line>>
              /\ IF ~contains(accounts, account)
                 THEN /\ Len(accounts) < MaxAccounts
                      /\ accounts' = Append(accounts, account)
                      /\ out' = Silent
                 ELSE /\ accounts' = accounts
                      /\ out' = Say("An account with this name already exists!")
    /\ pc' = "PostTransactionPrompt"
    /\ UNCHANGED <<exchange_rates, chosen_idx, txn_cnt>>

\* match arm 2 | 3
DepositOrWithdraw ==
    /\ pc = "InTransaction" /\ chosen_idx \in {2, 3}
    /\ \E answers \in [1..Len(accounts) -> NameLines],
          currency_line \in CurrencyLines, amount_line \in AmountLines :
          LET i == find(accounts, answers)
              r == IF chosen_idx = 2
                   THEN deposit_balance(accounts[i], exchange_rates,
                                        currency_line, amount_line)
                   ELSE withdraw_balance(accounts[i], exchange_rates,
                                         currency_line, amount_line)
          IN  IF i # 0
              THEN /\ accounts' = [accounts EXCEPT ![i] = r.account]
                   /\ lines' = find_lines(accounts, answers) \o r.lines
                   /\ out' = r.out
              ELSE /\ accounts' = accounts
                   /\ lines' = find_lines(accounts, answers)
                   /\ out' = Say("No account with this name exists!")
    /\ pc' = "PostTransactionPrompt"
    /\ UNCHANGED <<exchange_rates, chosen_idx, txn_cnt>>

\* match arm 4: one round of exchange_currencies
Exchange ==
    /\ pc = "InTransaction" /\ chosen_idx = 4
    /\ \E src_line \in CurrencyIdLines, amount_line \in SourceAmountLines,
          exchange_line \in CurrencyIdLines, overflow_checks \in BOOLEAN :
          LET r == exchange_currencies(exchange_rates, src_line, amount_line,
                                       exchange_line, overflow_checks)
          IN  /\ lines' = r.lines
              /\ out' = r.out
              /\ pc' = IF r.panicked THEN "Panicked" ELSE "ExchangeRepeat"
    /\ UNCHANGED <<accounts, exchange_rates, chosen_idx, txn_cnt>>

\* 'repeat_prompt
RepeatPrompt ==
    /\ pc = "ExchangeRepeat"
    /\ \E line \in YesNoLines :
          LET is_repeating == to_uppercase(prompt(line))
          IN  /\ lines' = <<line>>
              /\ IF is_repeating = "Y"
                 THEN pc' = "InTransaction" /\ out' = Silent
                 ELSE IF is_repeating = "N"
                 THEN pc' = "PostTransactionPrompt" /\ out' = Silent
                 ELSE pc' = pc /\ out' = Say("Only accepting a [Y]es or [N]o answer!")
    /\ UNCHANGED <<accounts, exchange_rates, chosen_idx, txn_cnt>>

\* match arm 5
RecordRate ==
    /\ pc = "InTransaction" /\ chosen_idx = 5
    /\ \E id_line \in RateIdLines, rate_line \in RateLines :
          LET r == set_exchange_rate(exchange_rates, id_line, rate_line)
          IN  /\ exchange_rates' = r.rates
              /\ lines' = r.lines
              /\ out' = r.out
    /\ pc' = "PostTransactionPrompt"
    /\ UNCHANGED <<accounts, chosen_idx, txn_cnt>>

\* match arm 6
ShowInterest ==
    /\ pc = "InTransaction" /\ chosen_idx = 6
    /\ \E answers \in [1..Len(accounts) -> NameLines], day_line \in DayLines :
          LET i == find(accounts, answers)
              r == calculate_interest(accounts[i], day_line)
          IN  IF i # 0
              THEN /\ lines' = find_lines(accounts, answers) \o r.lines
                   /\ out' = r.out
              ELSE /\ lines' = find_lines(accounts, answers)
                   /\ out' = Say("No account with this name exists!")
    /\ pc' = "PostTransactionPrompt"
    /\ UNCHANGED <<accounts, exchange_rates, chosen_idx, txn_cnt>>

\* the default arm leaving the session instead of going on to the prompt
UnknownTransaction_fatal ==
    /\ pc = "InTransaction" /\ chosen_idx \notin 1..6
    /\ lines' = <<>>
    /\ out' = Say("No transaction with this ID exists!")
    /\ pc' = "Terminated"
    /\ UNCHANGED <<accounts, exchange_rates, chosen_idx, txn_cnt>>

\* match arm _
UnknownTransaction ==
    /\ pc = "InTransaction" /\ chosen_idx \notin 1..6
    /\ lines' = <<>>
    /\ out' = Say("No transaction with this ID exists!")
    /\ pc' = "PostTransactionPrompt"
    /\ UNCHANGED <<accounts, exchange_rates, chosen_idx, txn_cnt>>

\* 'exit_prompt
ExitPrompt ==
    /\ pc = "PostTransactionPrompt"
    /\ \E line \in YesNoLines :
          LET is_continuing == to_uppercase(prompt(line))
          IN  /\ lines' = <<line>>
              /\ IF is_continuing = "Y"
                 THEN pc' = "MainMenu" /\ out' = Silent
                 ELSE IF is_continuing = "N"
                 THEN pc' = "Terminated" /\ out' = Silent
                 ELSE pc' = pc /\ out' = Say("Only accepting a [Y]es or [N]o answer!")
    /\ UNCHANGED <<accounts, exchange_rates, chosen_idx, txn_cnt>>

Next ==
    \/ SelectTransaction
    \/ Register
    \/ DepositOrWithdraw
    \/ Exchange
    \/ RepeatPrompt
    \/ RecordRate
    \/ ShowInterest
    \/ UnknownTransaction
    \/ ExitPrompt

Spec == Init /\ [][Next]_vars

NextInterest == ShowInterest

SpecInterest == InitInterest /\ [][NextInterest]_vars

\* ---------------------------------------------------------- properties
ForeignCodes == {CURRENCIES_CODES[i] : i \in 2..CURRENCY_CNT}

\* a step of the transaction picked at the menu
TransactionStep(id) == pc = "InTransaction" /\ chosen_idx = id /\ pc' # pc

\* C1: every account in the registry has a balance >= 0.
C1_NonNegativeBalance ==
    \A i \in 1..Len(accounts) :
        ~is_nan(accounts[i].balance) /\ accounts[i].balance >= 0

\* C2: Register with a name an account of the registry already has reports a
\* duplicate and leaves the registry unchanged, so that no two accounts ever
\* share a name.
C2_UniqueNames ==
    [][(TransactionStep(1)
        /\ (\E k \in 1..Len(accounts) : accounts[k].name = prompt(lines'[1])))
       => (accounts' = accounts
           /\ out'.msg = "An account with this name already exists!"
           /\ (\A i, j \in 1..Len(accounts') :
                  i # j => accounts'[i].name # accounts'[j].name))]_vars

\* C3: when the name given at the Account Name prompt of Deposit, Withdraw or
\* Show Interest is the name of an account, whatever its position, the
\* transaction operates on an account of that name and does not report
\* account-not-found.
C3_ExactMatchLookup ==
    [][((\E id \in {2, 3, 6} : TransactionStep(id))
        /\ Len(accounts) > 0
        /\ (\E i \in 1..Len(accounts) : accounts[i].name = prompt(lines'[1])))
       => (out'.msg # "No account with this name exists!"
           /\ (\A j \in 1..Len(accounts) :
                  accounts'[j] # accounts[j]
                  => accounts[j].name = prompt(lines'[1])))]_vars

\* C4: every key of the rate table is a foreign catalog code, and PHP has no
\* entry.
C4_RateKeysForeign ==
    /\ DOMAIN exchange_rates \subseteq ForeignCodes
    /\ "PHP" \notin DOMAIN exchange_rates

\* C5: Record Exchange Rates with a value <= 0 reports an error and stores
\* nothing, so that every stored rate is > 0.
C5_PositiveRates ==
    [][(TransactionStep(5)
        /\ Len(lines') = 2
        /\ parse_f64(prompt(lines'[2])).ok
        /\ ~flt(0, parse_f64(prompt(lines'[2])).v))
       => (exchange_rates' = exchange_rates
           /\ out'.msg # ""
           /\ (\A c \in DOMAIN exchange_rates' : flt(0, exchange_rates'[c])))]_vars

\* the two lines of a Record Exchange Rates step that read a number and a rate
RateStep(k, r) ==
    /\ TransactionStep(5)
    /\ Len(lines') = 2
    /\ parse_usize(prompt(lines'[1])) = Ok(k)
    /\ parse_f64(prompt(lines'[2])) = Ok(r)

F64Inputs == {parse_f64(prompt(l)).v : l \in RateLines}

\* C6 (as claimed): the number entered is the 1-based index into PHP, USD,
\* JPY, GBP, EUR, CNY: entering k in 2..6 and a rate r sets the rate of the
\* k-th currency of that list to r and changes no other rate.
C6_FullListIndex ==
    [][\A k \in 2..6, r \in F64Inputs :
          RateStep(k, r)
          => exchange_rates' = [exchange_rates EXCEPT ![CURRENCIES_CODES[k]] = r]]_vars

\* C6 (amended): the number entered is the 1-based index into the foreign
\* list USD, JPY, GBP, EUR, CNY: entering k in 1..5 and a rate r sets the rate
\* of the k-th foreign currency to r and changes no other rate.
C6_ForeignListIndex ==
    [][\A k \in 1..5, r \in F64Inputs :
          RateStep(k, r)
          => exchange_rates' =
               [exchange_rates EXCEPT ![<<"USD", "JPY", "GBP", "EUR", "CNY">>[k]] = r]]_vars

C6_Witness ==
    /\ pc = "PostTransactionPrompt" /\ chosen_idx = 5
    /\ lines = <<"5", "2">>
    /\ exchange_rates["CNY"] = 2
    /\ \A c \in ForeignCodes \ {"CNY"} : exchange_rates[c] = 1

\* C7: when Withdraw is rejected for insufficient funds, every account and
\* the rate table are as they were just before the transaction.
C7_FailedWithdrawNoOp ==
    [][(TransactionStep(3)
        /\ out'.msg = "Withdraw amount must be less than the current balance!")
       => (accounts' = accounts /\ exchange_rates' = exchange_rates)]_vars

C7_Witness ==
    /\ pc = "PostTransactionPrompt" /\ chosen_idx = 3
    /\ out.msg = "Withdraw amount must be less than the current balance!"
    /\ \E i \in 1..Len(accounts) :
          /\ accounts[i].name = prompt(lines[i])
          /\ accounts[i].balance = 1
          /\ lines[i + 2] = "2"

\* C8: the controller only moves MainMenu -> InTransaction(id);
\* InTransaction(id) -> PostTransactionPrompt for id # 4 and -> Exchange:Repeat
\* for id = 4; Exchange:Repeat -Y-> InTransaction(4), -N->
\* PostTransactionPrompt; PostTransactionPrompt -Y-> MainMenu, -N->
\* Terminated; any other answer re-prompts in the same state with registry
\* and rates unchanged.
C8_SessionStateMachine ==
    [][\/ (pc = "MainMenu" /\ pc' = "InTransaction")
       \/ (pc = "InTransaction" /\ chosen_idx # 4
           /\ pc' = "PostTransactionPrompt")
       \/ (pc = "InTransaction" /\ chosen_idx = 4 /\ pc' = "ExchangeRepeat")
       \/ (pc = "ExchangeRepeat" /\ to_uppercase(prompt(lines'[1])) = "Y"
           /\ pc' = "InTransaction" /\ chosen_idx' = 4)
       \/ (pc = "ExchangeRepeat" /\ to_uppercase(prompt(lines'[1])) = "N"
           /\ pc' = "PostTransactionPrompt")
       \/ (pc = "PostTransactionPrompt" /\ to_uppercase(prompt(lines'[1])) = "Y"
           /\ pc' = "MainMenu")
       \/ (pc = "PostTransactionPrompt" /\ to_uppercase(prompt(lines'[1])) = "N"
           /\ pc' = "Terminated")
       \/ (pc \in {"ExchangeRepeat", "PostTransactionPrompt"}
           /\ to_uppercase(prompt(lines'[1])) \notin {"Y", "N"}
           /\ pc' = pc /\ accounts' = accounts
           /\ exchange_rates' = exchange_rates)]_vars

\* the rate the conversion is claimed to use: 1 for PHP whatever the table
\* holds, the stored rate for a foreign code
ClaimedRate(c) == IF c = "PHP" THEN 1 ELSE exchange_rates[c]

\* C9: a quote of x from src to dst is x * r(src) * r(dst), with r(PHP) = 1
\* whatever the table holds and r(F) the stored rate of a foreign F; so a quote
\* from PHP to PHP is x, and one between PHP and F, either way, is x * rate(F).
C9_ConversionFormula ==
    (pc = "ExchangeRepeat" /\ out.msg = "Exchange Amount")
    => LET x == parse_f64(prompt(lines[2])).v
           src == CURRENCIES_CODES[parse_usize(prompt(lines[1])).v]
           dst == CURRENCIES_CODES[parse_usize(prompt(lines[3])).v]
       IN  /\ out.val = fmul(fmul(x, ClaimedRate(src)), ClaimedRate(dst))
           /\ (src = "PHP" /\ dst = "PHP") => out.val = x
           /\ (src # "PHP" /\ dst = "PHP") => out.val = fmul(x, exchange_rates[src])
           /\ (src = "PHP" /\ dst # "PHP") => out.val = fmul(x, exchange_rates[dst])

C9_Witness ==
    /\ pc = "ExchangeRepeat" /\ out.msg = "Exchange Amount"
    /\ lines = <<"2", "2", "3">>
    /\ exchange_rates["USD"] = 2 /\ exchange_rates["JPY"] = -1
    /\ out.val = -4

\* an ID line that is a whole number outside 1..6
OutOfRangeId(line) ==
    parse_usize(prompt(line)).ok /\ parse_usize(prompt(line)).v \notin 1..6

\* C10: in Currency Exchange a whole-number ID outside 1..6 (0 included) at
\* the Source Currency or Exchange Currency prompt aborts the quote with the
\* no-such-currency message, changes neither registry nor rates, and the
\* session goes on to the 'Convert another currency?' prompt.
C10_ExchangeErrorsNotFatal ==
    [][(TransactionStep(4)
        /\ (OutOfRangeId(lines'[1])
            \/ (Len(lines') = 3 /\ OutOfRangeId(lines'[3]))))
       => (out'.msg = "No currency with this ID exists!"
           /\ pc' = "ExchangeRepeat"
           /\ accounts' = accounts
           /\ exchange_rates' = exchange_rates)]_vars

\* C11: Register with a name that is empty after trimming reports an error and
\* leaves the registry unchanged, so that no account has an empty name.
C11_EmptyNameRejected ==
    [][(TransactionStep(1) /\ prompt(lines'[1]) = "")
       => (accounts' = accounts
           /\ out'.msg # ""
           /\ (\A i \in 1..Len(accounts') : accounts'[i].name # ""))]_vars

\* the menu lines that name a transaction
TransactionIdLines == {"1", "2", "3", "4", "5", "6"}

\* C12: a main-menu input that is not one of the identifiers 1..6 (0, a larger
\* number, or text that does not parse) selects no transaction, reports the
\* unknown-transaction error, leaves registry and rate table unchanged, and the
\* session goes on to the post-transaction prompt.
C12_UnknownTransaction ==
    [][/\ ((pc = "MainMenu" /\ pc' # pc /\ prompt(lines'[1]) \notin TransactionIdLines)
           => (pc' = "InTransaction" /\ chosen_idx' \notin 1..6
               /\ accounts' = accounts /\ exchange_rates' = exchange_rates))
       /\ ((pc = "InTransaction" /\ chosen_idx \notin 1..6 /\ pc' # pc)
           => (out'.msg = "No transaction with this ID exists!"
               /\ pc' = "PostTransactionPrompt"
               /\ accounts' = accounts /\ exchange_rates' = exchange_rates))]_vars

C12_Witness ==
    /\ pc = "PostTransactionPrompt"
    /\ chosen_idx = 0
    /\ out.msg = "No transaction with this ID exists!"
    /\ Len(accounts) = 1
    /\ exchange_rates["USD"] = 2

\* C13: only a Record Exchange Rates step changes the rate table; every other
\* step (Register, Deposit, Withdraw, Currency Exchange and its repeats, Show
\* Interest, the prompts), succeeding or not, leaves every stored rate as it
\* was; and no step removes an entry.
C13_RateTableFrame ==
    [][/\ (exchange_rates' # exchange_rates
           => (pc = "InTransaction" /\ chosen_idx = 5))
       /\ DOMAIN exchange_rates \subseteq DOMAIN exchange_rates']_vars

C13_Witness ==
    /\ pc = "PostTransactionPrompt" /\ chosen_idx = 2
    /\ out.msg = "Updated Balance" /\ out.val = 4
    /\ exchange_rates["USD"] = 2
    /\ \A c \in ForeignCodes \ {"USD"} : exchange_rates[c] = 1

\* the Deposit or Withdraw step whose lookup stops at the i-th account
Targets(i) ==
    /\ pc = "InTransaction" /\ chosen_idx \in {2, 3}
    /\ Len(lines') >= i
    /\ prompt(lines'[i]) = accounts[i].name
    /\ \A j \in 1..(i - 1) : prompt(lines'[j]) # accounts[j].name

\* C14: no step removes an account or moves it from its position, none
\* changes an account's name or currency, and an account's balance changes
\* only in a Deposit or Withdraw step that targets that account; Register,
\* Currency Exchange, Record Exchange Rates and Show Interest leave every
\* existing account as it was.
C14_AccountFrame ==
    [][/\ Len(accounts') >= Len(accounts)
       /\ \A i \in 1..Len(accounts) :
            /\ accounts'[i].name = accounts[i].name
            /\ accounts'[i].currency = accounts[i].currency
            /\ (accounts'[i].balance # accounts[i].balance => Targets(i))]_vars

C14_Witness ==
    /\ pc = "PostTransactionPrompt" /\ chosen_idx = 1
    /\ Len(accounts) = 2
    /\ accounts[1] = [name |-> "a", balance |-> 2, currency |-> "PHP"]
    /\ accounts[2] = [name |-> "b", balance |-> 0, currency |-> "PHP"]

\* B0 * 0.05 / 365 rounded to cents, in cents: the whole number nearest to
\* 5 * B0 / 365; a balance that is not finite gives itself
ClaimedDaily(B0) ==
    IF is_nan(B0) \/ is_infinite(B0) THEN B0
    ELSE CHOOSE d \in ((5 * B0) \div 365 - 1)..((5 * B0) \div 365 + 1) :
            \/ 2 * (5 * B0 - 365 * d) \in (-364)..364
            \/ (2 * (5 * B0 - 365 * d) = 365 /\ B0 > 0)
            \/ (2 * (5 * B0 - 365 * d) = -365 /\ B0 < 0)

\* C15: for a starting balance B0 and a day count N >= 0 the projection
\* prints exactly N rows, numbered 1..N, each with the same interest
\* daily = round_to_cents(B0 * 0.05 / 365), row i with balance B0 + i * daily,
\* so the last balance is B0 + N * daily and N = 0 prints no row.
C15_InterestTotal ==
    (pc = "PostTransactionPrompt" /\ chosen_idx = 6
     /\ out.msg = "Day | Interest | Balance |")
    => LET B0 == accounts[Len(lines) - 1].balance
           N == parse_u32(prompt(lines[Len(lines)])).v
           daily == ClaimedDaily(B0)
       IN  /\ Len(out.rows) = N
           /\ \A i \in 1..N :
                /\ out.rows[i].day = i
                /\ out.rows[i].interest = daily
                /\ out.rows[i].balance = fadd(cents(B0), fmul(i, daily))

C15_Witness ==
    /\ pc = "PostTransactionPrompt" /\ chosen_idx = 6
    /\ accounts[1].balance = 10000
    /\ lines = <<"a", "3">>
    /\ out.rows = <<[day |-> 1, interest |-> 137, balance |-> 1000137],
                    [day |-> 2, interest |-> 137, balance |-> 1000274],
                    [day |-> 3, interest |-> 137, balance |-> 1000411]>>

\* C16: a Deposit whose currency code is not in the catalog (the amount is
\* then not asked for), or whose amount does not parse, leaves the registry
\* unchanged; any other Deposit sets the balance of the account it targets to
\* balance + amount * r(currency), with r(PHP) = 1 and r(F) the rate stored
\* for F at that moment, a negative amount being a signed delta.
C16_DepositArithmetic ==
    [][\A i \in 1..Len(accounts) :
          (Targets(i) /\ chosen_idx = 2)
          => LET currency == to_uppercase(prompt(lines'[i + 1]))
             IN  IF currency \notin {CURRENCIES_CODES[k] : k \in 1..CURRENCY_CNT}
                 THEN Len(lines') = i + 1 /\ accounts' = accounts
                 ELSE IF ~parse_f64(prompt(lines'[i + 2])).ok
                 THEN accounts' = accounts
                 ELSE accounts' =
                        [accounts EXCEPT ![i].balance =
                           fadd(@, fmul(parse_f64(prompt(lines'[i + 2])).v,
                                        ClaimedRate(currency)))]]_vars

C16_Witness ==
    /\ pc = "PostTransactionPrompt" /\ chosen_idx = 2
    /\ lines = <<"a", "usd", "-1">>
    /\ exchange_rates["USD"] = 2
    /\ accounts = <<[name |-> "a", balance |-> -2, currency |-> "PHP"]>>
    /\ out = SayVal("Updated Balance", -2)

\* C17: before any transaction of a session the rate table holds exactly the
\* five foreign codes USD, JPY, GBP, EUR, CNY, each with rate 1.0, and the
\* registry is empty.
C17_RateInitialisation ==
    txn_cnt = 0
    => /\ DOMAIN exchange_rates = {"USD", "JPY", "GBP", "EUR", "CNY"}
       /\ \A c \in DOMAIN exchange_rates : exchange_rates[c] = 1
       /\ accounts = <<>>

C17_Witness ==
    /\ txn_cnt = 0
    /\ pc = "MainMenu"
    /\ exchange_rates["CNY"] = 1
    /\ Len(accounts) = 0

\* C18: a Withdraw with a catalog currency and an amount that parses is
\* cancelled exactly when the amount, converted to PHP, is greater than the
\* balance of the account it targets; an amount whose converted value equals
\* the balance is withdrawn and leaves the balance at exactly 0; and a
\* Withdraw that is not cancelled leaves the old balance minus the converted
\* amount.
C18_WithdrawThreshold ==
    [][\A i \in 1..Len(accounts) :
          (Targets(i) /\ chosen_idx = 3
           /\ to_uppercase(prompt(lines'[i + 1]))
                \in {CURRENCIES_CODES[k] : k \in 1..CURRENCY_CNT}
           /\ parse_f64(prompt(lines'[i + 2])).ok)
          => LET balance == accounts[i].balance
                 converted == fmul(parse_f64(prompt(lines'[i + 2])).v,
                                   ClaimedRate(to_uppercase(prompt(lines'[i + 1]))))
                 cancelled ==
                     out'.msg = "Withdraw amount must be less than the current balance!"
             IN  /\ cancelled <=> flt(balance, converted)
                 /\ (~is_nan(balance) /\ converted = balance)
                    => (~cancelled /\ accounts'[i].balance = 0)
                 /\ ~cancelled => accounts'[i].balance = fsub(balance, converted)]_vars

====
